---- MODULE Spec2Model ----
(***************************************************************************)
(* Prize allocation service (SorteoPremiosService).                        *)
(*                                                                         *)
(* The state is the MySQL database (tables prizes and registers, the row   *)
(* locks of prizes) and, for every HTTP request in flight, the position    *)
(* of its handler and the handler's local variables.  One action is one    *)
(* database statement or one synchronous stretch of handler code between   *)
(* two awaits.                                                             *)
(*                                                                         *)
(* A transaction's writes are kept beside the committed tables (txDec,     *)
(* txRow) until COMMIT applies them or ROLLBACK drops them; plain SELECTs  *)
(* read the committed tables, SELECT ... FOR UPDATE waits for the row lock.*)
(***************************************************************************)
EXTENDS Integers, Sequences, FiniteSets, TLC

\* ------------------------------------------------------------------ bounds
NReq == 2          \* request slots of the general specifications
NRace == 3         \* request slots of the stock-race specification
MaxStock == 2      \* largest initial_stock of a prize
PoolSize == 2      \* connections of the pool (connectionLimit, scaled down)

\* --------------------------------------------------------------- constants
MAX_PRIZES_PER_PERSON == 1

NULL == "NULL"
PrizeOrder == <<"P1", "P2">>
PrizeIds == {"P1", "P2"}
StoreIds == {"S1", "S2"}
Campaigns == {"C1", "C2"}

\* The identities a request can carry (req.body name / phoneNumber / dni).
\* A and B share the national ID and differ in phone and name; C has A's
\* phone and name and no national ID.
Persons ==
    { [name |-> "n1", phone |-> "p1", dni |-> "d1"],
      [name |-> "n2", phone |-> "p2", dni |-> "d1"],
      [name |-> "n1", phone |-> "p1", dni |-> NULL] }

\* Endpoints: "claim" is POST /claim of public.routes.ts, "claimAny" the
\* /claim variant with the DNI/phone/name limit check, "spin" is
\* /spin-roulette, "regspin" is /register-spin, "regfixed" is
\* /register-spin-fixed, "claimPhone" the older /claim variant whose limit
\* check knows the phone and the name only.
AllocKinds == {"claim", "spin", "regspin", "regfixed"}
IdentKinds == {"claim", "claimAny", "regspin", "regfixed"}
ParallelKinds == {"claim", "regfixed"}      \* check and listing in Promise.all
SequentialKinds == {"claimAny", "claimPhone"}   \* check awaited before the listing
CheckKinds == ParallelKinds \cup SequentialKinds

VARIABLES
    prizes,      \* table prizes, committed: id -> [store_id, initial_stock, available_stock]
    registers,   \* table registers, committed: set of rows
    uniqueIdx,   \* schema: registers has a unique index on the DNI (per campaign)
    rowLock,     \* exclusive row lock of each prize: holder request, or 0
    stores,      \* table stores, committed: id -> [present, is_active, name, campaign]
    creating,    \* POST /prizes between its store check and its INSERT
    pc,          \* position of each request's handler
    conn,        \* the request holds a connection taken from the pool
    tries,       \* errors of the attempts of the query() call in progress
    req,         \* req.body of each request
    existing,    \* existingRegistrations.length / prize_count, -1 before the query
    snapshot,    \* availablePrizes: sequence of [id, available_stock]
    listed,      \* the prize listing query has returned
    assigned,    \* assignedPrizeId
    lockedStock, \* available_stock returned by the locked read, -1 if none
    txDec,       \* units the transaction's uncommitted UPDATE takes off the stock
    txRow,       \* the transaction's uncommitted INSERT, or NoRow
    err,         \* the error thrown inside the try block
    resp         \* the response sent

vars == <<prizes, registers, uniqueIdx, rowLock, stores, creating, pc, conn,
          tries,
          req, existing, snapshot,
          listed, assigned, lockedStock, txDec, txRow, err, resp>>

dbVars == <<prizes, registers, uniqueIdx, rowLock, stores>>

Reqs == DOMAIN pc

\* waitForConnections: true: pool.execute and pool.getConnection wait until
\* fewer than connectionLimit connections are checked out.
PoolHasFree == Cardinality({r \in Reqs : conn[r]}) < PoolSize

\* INSERT INTO stores (id, name, campaign, is_active) VALUES (?, ?, ?, TRUE)
NewStore(name, campaign) ==
    [present |-> TRUE, is_active |-> TRUE, name |-> name, campaign |-> campaign]

NoReq == [kind |-> NULL, storeId |-> NULL, campaign |-> NULL,
          name |-> NULL, phone |-> NULL, dni |-> NULL, voucher |-> NULL]

\* ------------------------------------------------------------ pure helpers
RECURSIVE SumStock(_)
SumStock(s) ==
    IF s = <<>> THEN 0 ELSE Head(s).available_stock + SumStock(Tail(s))

\* Faulty variant: every prize of the list is equally likely.
RECURSIVE DrawLoopUnweighted(_, _, _)
DrawLoopUnweighted(list, i, randomNumber) ==
    IF i >= Len(list)
    THEN list[Len(list)]
    ELSE IF (i * 2 * SumStock(list)) \div Len(list) >= randomNumber
         THEN list[i] ELSE DrawLoopUnweighted(list, i + 1, randomNumber)

\* Faulty variant: the loop stops only when the remainder is negative.
RECURSIVE DrawLoopStrict(_, _, _)
DrawLoopStrict(list, i, randomNumber) ==
    IF i > Len(list)
    THEN list[Len(list)]
    ELSE LET rest == randomNumber - 2 * list[i].available_stock
         IN IF rest < 0 THEN list[i] ELSE DrawLoopStrict(list, i + 1, rest)

\* weightedRandom's loop from position i on.  The random number is counted
\* in half units (randomNumber = 2 * the code's value, each stock counted
\* twice), so that a drawn value may lie between two integers.
RECURSIVE DrawLoop(_, _, _)
DrawLoop(list, i, randomNumber) ==
    IF i > Len(list)
    THEN list[Len(list)]
    ELSE LET rest == randomNumber - 2 * list[i].available_stock
         IN IF rest <= 0 THEN list[i] ELSE DrawLoop(list, i + 1, rest)

\* weightedRandom(prizes) with Math.random() * totalWeight = half / 2.
weightedRandom(list, half) == DrawLoop(list, 1, half)

\* The values Math.random() * totalWeight can take, in half units.
DrawValues(list) == 0 .. (2 * SumStock(list) - 1)

\* SELECT id, name, available_stock FROM prizes
\* WHERE store_id = ? AND available_stock > 0
ListRow(p) == [id |-> p, available_stock |-> prizes[p].available_stock]

ListMatches(p, storeId) ==
    /\ prizes[p].store_id = storeId
    /\ prizes[p].available_stock > 0

RECURSIVE ListFrom(_, _)
ListFrom(order, storeId) ==
    IF order = <<>> THEN <<>>
    ELSE IF ListMatches(Head(order), storeId)
         THEN <<ListRow(Head(order))>> \o ListFrom(Tail(order), storeId)
         ELSE ListFrom(Tail(order), storeId)

ListAvailablePrizes(storeId) == ListFrom(PrizeOrder, storeId)

\* SELECT ... FROM registers r WHERE r.dni = ? AND r.campaign = ?
\* (a comparison with NULL matches no row)
RowsByDni(q) ==
    {x \in registers : q.dni # NULL /\ x.dni = q.dni /\ x.campaign = q.campaign}

\* SELECT id FROM registers WHERE phone_number = ? AND campaign = ?
RowsByPhone(q) ==
    {x \in registers :
        q.phone # NULL /\ x.phone_number = q.phone /\ x.campaign = q.campaign}

\* Faulty variant: the limit check without its national ID clause.
RowsByPhoneOrName(q) ==
    {x \in registers :
        /\ x.campaign = q.campaign
        /\ \/ (x.phone_number # NULL /\ x.phone_number = q.phone)
           \/ (x.name = q.name /\ x.dni = NULL /\ x.phone_number = NULL)}

\* Faulty variant: the limit check counts rows with a prize only.
RowsByAnyKeyClaimedOnly(q) ==
    {x \in registers :
        /\ x.status = "CLAIMED"
        /\ x.campaign = q.campaign
        /\ \/ (x.dni # NULL /\ x.dni = q.dni)
           \/ (x.phone_number # NULL /\ x.phone_number = q.phone)
           \/ (x.name = q.name /\ x.dni = NULL /\ x.phone_number = NULL)}

\* SELECT COUNT(id) ... WHERE campaign = ? AND ((dni IS NOT NULL AND dni = ?)
\*   OR (phone_number IS NOT NULL AND phone_number = ?)
\*   OR (name = ? AND dni IS NULL AND phone_number IS NULL))
RowsByAnyKey(q) ==
    {x \in registers :
        /\ x.campaign = q.campaign
        /\ \/ (x.dni # NULL /\ x.dni = q.dni)
           \/ (x.phone_number # NULL /\ x.phone_number = q.phone)
           \/ (x.name = q.name /\ x.dni = NULL /\ x.phone_number = NULL)}

\* limitIdentifier = finalPhoneNumber ? finalPhoneNumber : name
LimitIdentifier(q) == IF q.phone # NULL THEN q.phone ELSE q.name

\* SELECT COUNT(id) ... WHERE (phone_number = ? OR (phone_number IS NULL
\*   AND name = ?)) AND campaign = ?     with [limitIdentifier, name, campaign]
RowsByLimitIdentifier(q) ==
    {x \in registers :
        /\ x.campaign = q.campaign
        /\ \/ (x.phone_number # NULL /\ x.phone_number = LimitIdentifier(q))
           \/ (x.phone_number = NULL /\ x.name = q.name)}

\* What query() resolves to: mysql2's pair [rows, fields].
QueryResult(rows) == <<rows, "fields">>

\* existingRegistrations.length as each handler computes it.  /claim casts
\* the pair [rows, fields] itself to the row array, so its length is the
\* pair's; /register-spin-fixed takes element 0 of the pair; the /claim
\* variant reads prize_count of the COUNT row.
ExistingLength(q) ==
    CASE q.kind = "claim"    -> Len(QueryResult(RowsByDni(q)))
      [] q.kind = "regfixed" -> Cardinality(QueryResult(RowsByPhone(q))[1])
      [] q.kind = "claimAny" -> Cardinality(RowsByAnyKey(q))
      [] q.kind = "claimPhone" -> Cardinality(RowsByLimitIdentifier(q))
      [] OTHER               -> 0

LimitReached(n) == n >= MAX_PRIZES_PER_PERSON

\* Faulty variant: the row names the first prize of the catalogue, whatever
\* prize was assigned.
NewRegisterFirstPrize(r, q, prizeId) ==
    [ id           |-> r,
      name         |-> q.name,
      store_id     |-> q.storeId,
      prize_id     |-> PrizeOrder[1],
      campaign     |-> q.campaign,
      status       |-> "CLAIMED",
      phone_number |-> IF q.kind \in {"claim", "claimAny", "claimPhone", "regfixed"}
                       THEN q.phone ELSE NULL,
      dni          |-> IF q.kind \in {"claim", "claimAny", "regspin"}
                       THEN q.dni ELSE NULL,
      voucher_number |-> NULL ]

\* The row each endpoint inserts into registers.
NewRegister(r, q, prizeId) ==
    [ id           |-> r,
      name         |-> q.name,
      store_id     |-> q.storeId,
      prize_id     |-> prizeId,
      campaign     |-> q.campaign,
      status       |-> "CLAIMED",
      phone_number |-> IF q.kind \in {"claim", "claimAny", "claimPhone", "regfixed"}
                       THEN q.phone ELSE NULL,
      dni          |-> IF q.kind \in {"claim", "claimAny", "regspin"}
                       THEN q.dni ELSE NULL,
      voucher_number |-> NULL ]

\* Faulty variant: the registration is stored as a claim.
NewRegistrationClaimed(r, q) ==
    [ id           |-> r,
      name         |-> q.name,
      store_id     |-> NULL,
      prize_id     |-> NULL,
      campaign     |-> q.campaign,
      status       |-> "CLAIMED",
      phone_number |-> q.phone,
      dni          |-> q.dni,
      voucher_number |-> q.voucher ]

\* The row /only-register inserts: no store, no prize.
NewRegistration(r, q) ==
    [ id           |-> r,
      name         |-> q.name,
      store_id     |-> NULL,
      prize_id     |-> NULL,
      campaign     |-> q.campaign,
      status       |-> "REGISTERED",
      phone_number |-> q.phone,
      dni          |-> q.dni,
      voucher_number |-> q.voucher ]

\* SELECT id FROM registers WHERE voucher_number = ? AND campaign = ?
RowsByVoucher(q) ==
    {x \in registers :
        /\ x.voucher_number # NULL
        /\ x.voucher_number = q.voucher
        /\ x.campaign = q.campaign}

\* The uniqueness constraints of registers: the keys of row collide with a
\* row of rows.  The voucher number is unique; the DNI is unique per campaign
\* when the schema has that index.
DuplicateKey(row, rows) ==
    \/ /\ uniqueIdx
       /\ row.dni # NULL
       /\ \E x \in rows : x.dni = row.dni /\ x.campaign = row.campaign
    \/ /\ row.voucher_number # NULL
       /\ \E x \in rows : x.voucher_number = row.voucher_number

NoRow == [id |-> 0, name |-> NULL, store_id |-> NULL, prize_id |-> NULL,
          campaign |-> NULL, status |-> NULL, phone_number |-> NULL, dni |-> NULL,
          voucher_number |-> NULL]

\* Rows other transactions have inserted and not yet committed.
PendingRows(r) == {txRow[o] : o \in {o \in Reqs : o # r /\ txRow[o] # NoRow}}

\* Faulty variant: the catch block answers 500 whatever was thrown.
CatchAlwaysInternal(e) == "INTERNAL"

\* catch (error): STOCK_LOST / NO_STOCK answer 409, anything else 500.
CatchResponse(e) ==
    IF e = "NO_STOCK" \/ e = "STOCK_LOST" THEN "STOCK_LOST" ELSE "INTERNAL"

\* availablePrizes.length: /claim casts the pair [rows, fields] to the array.
AvailableLength(q, list) ==
    IF q.kind = "claim" THEN Len(QueryResult(list)) ELSE Len(list)

\* ----------------------------------------------------------------- requests
PersonsFor(kind, persons) ==
    CASE kind = "regspin"  -> {p \in persons : p.dni # NULL}
      [] kind = "regfixed" -> {p \in persons : p.phone # NULL}
      [] kind = "spin"     -> {[name |-> "anon", phone |-> NULL, dni |-> NULL]}
      [] OTHER             -> persons

\* Faulty variant: after a stock conflict the handler starts over instead of
\* answering.
FinishOrRetry(r, outcome) ==
    /\ pc' = [pc EXCEPT ![r] = IF outcome = "STOCK_LOST" THEN "query" ELSE "done"]
    /\ resp' = [resp EXCEPT ![r] = IF outcome = "STOCK_LOST" THEN @ ELSE outcome]
    /\ existing' = [existing EXCEPT ![r] = -1]
    /\ snapshot' = [snapshot EXCEPT ![r] = <<>>]
    /\ listed' = [listed EXCEPT ![r] = FALSE]
    /\ lockedStock' = [lockedStock EXCEPT ![r] = -1]
    /\ txDec' = [txDec EXCEPT ![r] = 0]
    /\ txRow' = [txRow EXCEPT ![r] = NoRow]

\* The handler ends: its locals are gone; the response and the logged error
\* (console.error) stay.
Finish(r, outcome) ==
    /\ pc' = [pc EXCEPT ![r] = "done"]
    /\ resp' = [resp EXCEPT ![r] = outcome]
    /\ existing' = [existing EXCEPT ![r] = -1]
    /\ snapshot' = [snapshot EXCEPT ![r] = <<>>]
    /\ listed' = [listed EXCEPT ![r] = FALSE]
    /\ lockedStock' = [lockedStock EXCEPT ![r] = -1]
    /\ txDec' = [txDec EXCEPT ![r] = 0]
    /\ txRow' = [txRow EXCEPT ![r] = NoRow]

\* A request arrives with a valid body (the 400 checks pass).
ReceiveIn(r, kinds, persons, campaigns, storeIds) ==
    /\ pc[r] = "idle"
    /\ \E kind \in kinds, campaign \in campaigns, storeId \in storeIds :
         \E person \in PersonsFor(kind, persons) :
            req' = [req EXCEPT ![r] =
                      [kind |-> kind, storeId |-> storeId, campaign |-> campaign,
                       name |-> person.name, phone |-> person.phone,
                       dni |-> person.dni, voucher |-> NULL]]
    /\ pc' = [pc EXCEPT ![r] = "query"]
    /\ UNCHANGED <<dbVars, creating, conn, tries, existing, snapshot, listed, assigned, lockedStock,
                   txDec, txRow, err, resp>>

\* The eligibility query returns.  The sequential /claim variant answers 403
\* right away; the Promise.all handlers wait for the listing as well.
CheckEligibility(r) ==
    /\ pc[r] = "query"
    /\ PoolHasFree
    /\ req[r].kind \in CheckKinds
    /\ existing[r] = -1
    /\ LET n == ExistingLength(req[r]) IN
       IF req[r].kind \in SequentialKinds /\ LimitReached(n)
       THEN /\ Finish(r, "DUPLICATE")
            /\ UNCHANGED <<dbVars, creating, conn, tries, req, assigned, err>>
       ELSE /\ existing' = [existing EXCEPT ![r] = n]
            /\ UNCHANGED <<dbVars, creating, pc, conn, tries, req, snapshot, listed, assigned,
                           lockedStock, txDec, txRow, err, resp>>

\* The prize listing query returns.
ListPrizes(r) ==
    /\ pc[r] = "query"
    /\ PoolHasFree
    /\ ~listed[r]
    /\ req[r].kind \in SequentialKinds => existing[r] # -1
    /\ snapshot' = [snapshot EXCEPT ![r] = ListAvailablePrizes(req[r].storeId)]
    /\ listed' = [listed EXCEPT ![r] = TRUE]
    /\ UNCHANGED <<dbVars, creating, pc, conn, tries, req, existing, assigned, lockedStock, txDec,
                   txRow, err, resp>>

\* The business validations once every awaited query has returned.
\* Faulty variant: the stock check comes before the limit check.
ValidateStockFirst(r) ==
    /\ pc[r] = "query"
    /\ listed[r]
    /\ req[r].kind \in CheckKinds => existing[r] # -1
    /\ IF AvailableLength(req[r], snapshot[r]) = 0
       THEN /\ Finish(r, "NO_STOCK")
            /\ UNCHANGED <<dbVars, creating, conn, tries, req, assigned, err>>
       ELSE IF req[r].kind \in ParallelKinds /\ LimitReached(existing[r])
       THEN /\ Finish(r, "DUPLICATE")
            /\ UNCHANGED <<dbVars, creating, conn, tries, req, assigned, err>>
       ELSE /\ pc' = [pc EXCEPT ![r] = "draw"]
            /\ UNCHANGED <<dbVars, creating, conn, tries, req, existing, snapshot, listed, assigned,
                           lockedStock, txDec, txRow, err, resp>>

\* Faulty variant: the validations run as soon as the listing has returned,
\* without awaiting the eligibility query.
ValidateUnawaited(r) ==
    /\ pc[r] = "query"
    /\ listed[r]
    /\ IF req[r].kind \in ParallelKinds /\ LimitReached(existing[r])
       THEN /\ Finish(r, "DUPLICATE")
            /\ UNCHANGED <<dbVars, creating, conn, tries, req, assigned, err>>
       ELSE IF AvailableLength(req[r], snapshot[r]) = 0
       THEN /\ Finish(r, "NO_STOCK")
            /\ UNCHANGED <<dbVars, creating, conn, tries, req, assigned, err>>
       ELSE /\ pc' = [pc EXCEPT ![r] = "draw"]
            /\ UNCHANGED <<dbVars, creating, conn, tries, req, existing, snapshot, listed, assigned,
                           lockedStock, txDec, txRow, err, resp>>

Validate(r) ==
    /\ pc[r] = "query"
    /\ listed[r]
    /\ req[r].kind \in CheckKinds => existing[r] # -1
    /\ IF req[r].kind \in ParallelKinds /\ LimitReached(existing[r])
       THEN /\ Finish(r, "DUPLICATE")
            /\ UNCHANGED <<dbVars, creating, conn, tries, req, assigned, err>>
       ELSE IF AvailableLength(req[r], snapshot[r]) = 0
       THEN /\ Finish(r, "NO_STOCK")
            /\ UNCHANGED <<dbVars, creating, conn, tries, req, assigned, err>>
       ELSE /\ pc' = [pc EXCEPT ![r] = "draw"]
            /\ UNCHANGED <<dbVars, creating, conn, tries, req, existing, snapshot, listed, assigned,
                           lockedStock, txDec, txRow, err, resp>>

\* Faulty variant: the draw takes the unit off the persisted stock itself.
DrawConsuming(r) ==
    /\ pc[r] = "draw"
    /\ \E half \in DrawValues(snapshot[r]) :
         LET won == weightedRandom(snapshot[r], half).id IN
         /\ assigned' = [assigned EXCEPT ![r] = won]
         /\ prizes' = [prizes EXCEPT ![won].available_stock =
                          IF @ > 0 THEN @ - 1 ELSE @]
    /\ pc' = [pc EXCEPT ![r] = "begin"]
    /\ UNCHANGED <<registers, uniqueIdx, rowLock, stores, creating, conn, tries, req,
                   existing, snapshot, listed, lockedStock, txDec, txRow, err,
                   resp>>

\* winningPrize = weightedRandom(availablePrizes)
Draw(r) ==
    /\ pc[r] = "draw"
    /\ \E half \in DrawValues(snapshot[r]) :
         assigned' = [assigned EXCEPT ![r] = weightedRandom(snapshot[r], half).id]
    /\ pc' = [pc EXCEPT ![r] = "begin"]
    /\ UNCHANGED <<dbVars, creating, conn, tries, req, existing, snapshot, listed, lockedStock,
                   txDec, txRow, err, resp>>

\* ------------------------------------------------------------- transaction
\* pool.getConnection() and connection.beginTransaction().  StatementFails at
\* "begin" is getConnection() failing: no connection is held; a failing
\* beginTransaction() is the failure at "select": connection held, no lock.
BeginTx(r) ==
    /\ pc[r] = "begin"
    /\ PoolHasFree
    /\ pc' = [pc EXCEPT ![r] = "select"]
    /\ conn' = [conn EXCEPT ![r] = TRUE]
    /\ UNCHANGED <<dbVars, creating, tries, req, existing, snapshot, listed,
                   assigned, lockedStock, txDec, txRow, err, resp>>

\* Faulty variant: the locked read does not wait for the row lock.
LockNotExclusive(p, r) == TRUE

\* FOR UPDATE waits until no other transaction holds the row's lock.
LockGranted(p, r) == rowLock[p] = 0

\* Faulty variant: the locked read without the available_stock > 0 filter.
LockedRowsUnfiltered(p) == {prizes[p]}

\* ... WHERE id = ? AND available_stock > 0
LockedRows(p) == IF prizes[p].available_stock > 0 THEN {prizes[p]} ELSE {}

\* SELECT available_stock FROM prizes WHERE id = ? AND available_stock > 0
\* FOR UPDATE; no row: throw new Error('STOCK_LOST')
LockedRead(r) ==
    LET p == assigned[r] IN
    /\ pc[r] = "select"
    /\ LockGranted(p, r)
    /\ rowLock' = [rowLock EXCEPT ![p] = r]
    /\ IF Cardinality(LockedRows(p)) = 0
       THEN /\ err' = [err EXCEPT ![r] = "STOCK_LOST"]
            /\ pc' = [pc EXCEPT ![r] = "rollback"]
            /\ UNCHANGED lockedStock
       ELSE /\ lockedStock' = [lockedStock EXCEPT ![r] = prizes[p].available_stock]
            /\ pc' = [pc EXCEPT ![r] = "update"]
            /\ UNCHANGED err
    /\ UNCHANGED <<prizes, registers, uniqueIdx, stores, creating, conn, tries, req,
                   existing, snapshot, listed, assigned, txDec, txRow, resp>>

\* UPDATE prizes SET available_stock = available_stock - 1 WHERE id = ?
StockDecrement == 1

UpdateStock(r) ==
    /\ pc[r] = "update"
    /\ txDec' = [txDec EXCEPT ![r] = StockDecrement]
    /\ pc' = [pc EXCEPT ![r] = "insert"]
    /\ UNCHANGED <<dbVars, creating, conn, tries, req, existing, snapshot, listed, assigned,
                   lockedStock, txRow, err, resp>>

\* INSERT INTO registers (...) VALUES (..., 'CLAIMED', ...).  An insert that
\* collides with another transaction's uncommitted row waits for it.
InsertRegister(r) ==
    LET row == NewRegister(r, req[r], assigned[r]) IN
    /\ pc[r] = "insert"
    /\ ~DuplicateKey(row, PendingRows(r))
    /\ IF DuplicateKey(row, registers)
       THEN /\ err' = [err EXCEPT ![r] = "ER_DUP_ENTRY"]
            /\ pc' = [pc EXCEPT ![r] = "rollback"]
            /\ UNCHANGED txRow
       ELSE /\ txRow' = [txRow EXCEPT ![r] = row]
            /\ pc' = [pc EXCEPT ![r] = "commit"]
            /\ UNCHANGED err
    /\ UNCHANGED <<dbVars, creating, conn, tries, req, existing, snapshot, listed, assigned,
                   lockedStock, txDec, resp>>

\* The tables after the transaction of r ends, its writes applied or dropped.
PrizesAfterCommit(r) ==
    [prizes EXCEPT ![assigned[r]].available_stock = @ - txDec[r]]

\* Faulty variant: the commit loses the inserted row.
RegistersInsertLost(r) == registers

RegistersAfterCommit(r) ==
    IF txRow[r] = NoRow THEN registers ELSE registers \cup {txRow[r]}

\* Faulty variant: the catch block keeps the decrement instead of rolling it back.
PrizesKeptOnRollback(r) == PrizesAfterCommit(r)

PrizesAfterRollback(r) == prizes

RegistersAfterRollback(r) == registers

\* Faulty variant: the connection is not given back to the pool.
ConnKept(r) == conn

\* finally { connection.release() }
ConnAfterRelease(r) == [conn EXCEPT ![r] = FALSE]

\* Faulty variant: the end of a transaction leaves its row locks in place.
LocksKept(r) == rowLock

LocksReleased(r) == [p \in PrizeIds |-> IF rowLock[p] = r THEN 0 ELSE rowLock[p]]

\* connection.commit(), connection.release(), res.status(200)
Commit(r) ==
    /\ pc[r] = "commit"
    /\ prizes' = PrizesAfterCommit(r)
    /\ registers' = RegistersAfterCommit(r)
    /\ rowLock' = LocksReleased(r)
    /\ conn' = ConnAfterRelease(r)
    /\ Finish(r, "OK")
    /\ UNCHANGED <<uniqueIdx, stores, creating, tries, req, assigned, err>>

\* beginTransaction(), a statement of the callback or commit() fails for a
\* storage reason (connection lost, lock wait timeout) and throws; a failed
\* commit has applied nothing.
StatementFails(r) ==
    /\ pc[r] \in {"begin", "select", "update", "insert", "commit"}
    /\ err' = [err EXCEPT ![r] = "DB_ERROR"]
    /\ pc' = [pc EXCEPT ![r] = "rollback"]
    /\ UNCHANGED <<dbVars, creating, conn, tries, req, existing, snapshot, listed, assigned,
                   lockedStock, txDec, txRow, resp>>

\* catch (e) { connection.rollback(); throw e } finally { release() }, then
\* the handler's catch answers 409 or 500.
Rollback(r) ==
    /\ pc[r] = "rollback"
    /\ prizes' = PrizesAfterRollback(r)
    /\ registers' = RegistersAfterRollback(r)
    /\ rowLock' = LocksReleased(r)
    /\ conn' = ConnAfterRelease(r)
    /\ Finish(r, CatchResponse(err[r]))
    /\ UNCHANGED <<uniqueIdx, stores, creating, tries, req, assigned, err>>

\* connection.rollback() itself rejects (the connection is gone): finally
\* still releases the connection, the rollback's error replaces the one that
\* was being handled, and the server drops the dead session's transaction
\* with its writes and its locks.
RollbackFails(r) ==
    /\ pc[r] = "rollback"
    /\ conn[r]
    /\ prizes' = PrizesAfterRollback(r)
    /\ registers' = RegistersAfterRollback(r)
    /\ rowLock' = LocksReleased(r)
    /\ conn' = ConnAfterRelease(r)
    /\ err' = [err EXCEPT ![r] = "ROLLBACK_ERROR"]
    /\ Finish(r, CatchResponse("ROLLBACK_ERROR"))
    /\ UNCHANGED <<uniqueIdx, stores, creating, tries, req, assigned>>

\* -------------------------------------------------------------------- admin
reqVars == <<pc, conn, tries, req, existing, snapshot, listed, assigned, lockedStock,
             txDec, txRow, err, resp>>

\* A store or prize that has no row: not created yet, or deleted.
NoStore == [present |-> FALSE, is_active |-> FALSE, name |-> NULL,
            campaign |-> NULL]

NoPrize == [store_id |-> NULL, initial_stock |-> 0, available_stock |-> 0]

DeletedPrize == [store_id |-> "DELETED", initial_stock |-> 0, available_stock |-> 0]

NoCreate == [storeId |-> NULL, stock |-> 0]

\* The id randomUUID() gives the next prize: one no row has had.
FreshPrizeIds == {p \in PrizeIds : prizes[p] = NoPrize}

\* POST /prizes {storeId, initialStock}: the store check
\* SELECT id FROM stores WHERE id = ? AND is_active = TRUE finds the store.
CheckStoreForPrize(s) ==
    /\ creating = NoCreate
    /\ PoolHasFree
    /\ FreshPrizeIds # {}
    /\ stores[s].present
    /\ stores[s].is_active
    /\ \E stock \in 0 .. MaxStock :
         creating' = [storeId |-> s, stock |-> stock]
    /\ UNCHANGED <<dbVars, reqVars>>

\* POST /prizes: INSERT INTO prizes (..., initial_stock, available_stock)
\* VALUES (..., stock, stock); it fails when the store row is gone.
InsertPrize ==
    /\ creating # NoCreate
    /\ PoolHasFree
    /\ creating' = NoCreate
    /\ IF stores[creating.storeId].present
       THEN \E p \in FreshPrizeIds :
              prizes' = [prizes EXCEPT ![p] =
                           [store_id |-> creating.storeId,
                            initial_stock |-> creating.stock,
                            available_stock |-> creating.stock]]
       ELSE UNCHANGED prizes
    /\ UNCHANGED <<registers, uniqueIdx, rowLock, stores, reqVars>>

\* PUT /prizes/:id {availableStock}: UPDATE prizes SET available_stock = ?
\* WHERE id = ?; the statement waits for the row's lock.
UpdatePrize(p) ==
    /\ prizes[p].store_id \in StoreIds
    /\ PoolHasFree
    /\ rowLock[p] = 0
    /\ \E stockAdjustment \in 0 .. MaxStock :
         prizes' = [prizes EXCEPT ![p].available_stock = stockAdjustment]
    /\ UNCHANGED <<registers, uniqueIdx, rowLock, stores, creating, reqVars>>

\* PATCH /stores/:id/deactivate: UPDATE stores SET is_active = FALSE
\* WHERE id = ? AND is_active = TRUE
DeactivateStore(s) ==
    /\ stores[s].present
    /\ PoolHasFree
    /\ stores[s].is_active
    /\ stores' = [stores EXCEPT ![s].is_active = FALSE]
    /\ UNCHANGED <<prizes, registers, uniqueIdx, rowLock, creating, reqVars>>

\* Faulty variant: deleting a store deletes the ledger rows that reference it.
RegistersCascade(s) == {x \in registers : x.store_id # s}

\* DELETE FROM stores WHERE id = ? names no ledger row.
RegistersAfterStoreDelete(s) == registers

\* ON DELETE CASCADE of prizes: the store's prizes go with it.
PrizesAfterStoreDelete(s) ==
    [p \in PrizeIds |-> IF prizes[p].store_id = s THEN DeletedPrize ELSE prizes[p]]

\* DELETE /stores/:id; the cascading delete waits for the prizes' row locks.
DeleteStore(s) ==
    /\ stores[s].present
    /\ PoolHasFree
    /\ \A p \in PrizeIds : prizes[p].store_id = s => rowLock[p] = 0
    /\ stores' = [stores EXCEPT ![s] = NoStore]
    /\ prizes' = PrizesAfterStoreDelete(s)
    /\ registers' = RegistersAfterStoreDelete(s)
    /\ UNCHANGED <<uniqueIdx, rowLock, creating, reqVars>>

\* ---------------------------------------------------------- PUT /stores/:id
StoreNames == {"a", "b"}

\* The value of a property an object does not have.
Undefined == [undefined |-> TRUE]

\* The ResultSetHeader pool.execute resolves an UPDATE with (first element
\* of the pair): affectedRows counts the rows the WHERE clause matched.
UpdateHeader(s) == [affectedRows |-> IF stores[s].present THEN 1 ELSE 0]

\* resultsArray[0]: property "0" of the value destructured from the pair.
ElementZero(resultsArray) ==
    IF "0" \in DOMAIN resultsArray THEN resultsArray["0"] ELSE Undefined

\* resultHeader.affectedRows === 0 answers 404, otherwise success; reading
\* a property of undefined throws a TypeError and the catch answers 500.
StoreUpdateResponse(resultHeader) ==
    IF resultHeader = Undefined THEN "INTERNAL"
    ELSE IF resultHeader.affectedRows = 0 THEN "NOT_FOUND" ELSE "UPDATED"

\* UPDATE stores SET name = ?, campaign = ? WHERE id = ? with the fields
\* the body carries.
StoresAfterUpdate(q) ==
    IF stores[q.storeId].present
    THEN [stores EXCEPT ![q.storeId] =
            [@ EXCEPT !.name = IF q.name # NULL THEN q.name ELSE @,
                      !.campaign = IF q.campaign # NULL THEN q.campaign ELSE @]]
    ELSE stores

\* PUT /stores/:id arrives with a name, a campaign or both.
ReceiveUpdateStore(r) ==
    /\ pc[r] = "idle"
    /\ \E s \in StoreIds, name \in StoreNames \cup {NULL},
          campaign \in Campaigns \cup {NULL} :
         /\ ~(name = NULL /\ campaign = NULL)
         /\ req' = [req EXCEPT ![r] =
                      [NoReq EXCEPT !.kind = "putStore", !.storeId = s,
                                    !.name = name, !.campaign = campaign]]
    /\ pc' = [pc EXCEPT ![r] = "supdate"]
    /\ UNCHANGED <<dbVars, creating, conn, tries, existing, snapshot, listed,
                   assigned, lockedStock, txDec, txRow, err, resp>>

\* The UPDATE runs (autocommit) and the handler reads its result.
UpdateStore(r) ==
    LET resultsArray == UpdateHeader(req[r].storeId)
        resultHeader == ElementZero(resultsArray)
    IN /\ pc[r] = "supdate"
       /\ PoolHasFree
       /\ stores' = StoresAfterUpdate(req[r])
       /\ err' = [err EXCEPT ![r] =
                    IF resultHeader = Undefined THEN "TypeError" ELSE @]
       /\ Finish(r, StoreUpdateResponse(resultHeader))
       /\ UNCHANGED <<prizes, registers, uniqueIdx, rowLock, creating, conn,
                      tries, req, assigned>>

\* The UPDATE is rejected by the database: the catch answers 500.
UpdateStoreFails(r) ==
    /\ pc[r] = "supdate"
    /\ err' = [err EXCEPT ![r] = "DB_ERROR"]
    /\ Finish(r, "INTERNAL")
    /\ UNCHANGED <<dbVars, creating, conn, tries, req, assigned>>

\* ------------------------------------------------------------ /only-register
Vouchers == {"v1", "v2"}

\* catch (error) of /only-register: ER_DUP_ENTRY answers 409, anything else 500.
RegisterCatchResponse(e) ==
    IF e = "ER_DUP_ENTRY" THEN "DUPLICATE" ELSE "INTERNAL"

\* A registration arrives with name, campaign, phoneNumber, dni, voucherNumber.
ReceiveOnlyRegister(r) ==
    /\ pc[r] = "idle"
    /\ \E campaign \in Campaigns, voucher \in Vouchers :
         \E person \in {p \in Persons : p.phone # NULL /\ p.dni # NULL} :
            req' = [req EXCEPT ![r] =
                      [kind |-> "onlyreg", storeId |-> NULL, campaign |-> campaign,
                       name |-> person.name, phone |-> person.phone,
                       dni |-> person.dni, voucher |-> voucher]]
    /\ pc' = [pc EXCEPT ![r] = "vcheck"]
    /\ UNCHANGED <<dbVars, creating, conn, tries, existing, snapshot, listed, assigned,
                   lockedStock, txDec, txRow, err, resp>>

\* The voucher check returns: a row with the voucher answers 409.
VoucherCheck(r) ==
    /\ pc[r] \in {"vcheck", "vcheck2"}
    /\ PoolHasFree
    /\ IF Cardinality(QueryResult(RowsByVoucher(req[r]))[1]) > 0
       THEN /\ Finish(r, "DUPLICATE")
            /\ UNCHANGED <<dbVars, creating, conn, req, assigned, err>>
       ELSE /\ pc' = [pc EXCEPT ![r] = "vinsert"]
            /\ UNCHANGED <<dbVars, creating, conn, req, existing, snapshot, listed,
                           assigned, lockedStock, txDec, txRow, err, resp>>
    /\ tries' = [tries EXCEPT ![r] = <<>>]

\* INSERT INTO registers (...) VALUES (..., 'REGISTERED', ...), autocommit:
\* 201, or ER_DUP_ENTRY and the catch block.
InsertRegistration(r) ==
    LET row == NewRegistration(r, req[r]) IN
    /\ pc[r] \in {"vinsert", "vinsert2"}
    /\ PoolHasFree
    /\ ~DuplicateKey(row, PendingRows(r))
    /\ IF DuplicateKey(row, registers)
       THEN /\ err' = [err EXCEPT ![r] = "ER_DUP_ENTRY"]
            /\ Finish(r, RegisterCatchResponse("ER_DUP_ENTRY"))
            /\ UNCHANGED registers
       ELSE /\ registers' = registers \cup {row}
            /\ Finish(r, "REGISTERED")
            /\ UNCHANGED err
    /\ tries' = [tries EXCEPT ![r] = <<>>]
    /\ UNCHANGED <<prizes, uniqueIdx, rowLock, stores, creating, conn, req,
                   assigned>>

\* query() of db.ts: one of the two queries fails for a storage reason and
\* the error is rethrown at once: catch answers 500.
RegistrationFails(r) ==
    /\ pc[r] \in {"vcheck", "vinsert"}
    /\ err' = [err EXCEPT ![r] = "DB_ERROR"]
    /\ Finish(r, RegisterCatchResponse("DB_ERROR"))
    /\ UNCHANGED <<dbVars, creating, conn, tries, req, assigned>>

\* The position of a query that is being executed for the second time.
SecondAttempt(at) == IF at = "vcheck" THEN "vcheck2" ELSE "vinsert2"

\* The error codes pool.execute may reject with: the three of a lost
\* connection, and one of another kind.
ConnectionLostCodes == {"ECONNRESET", "PROTOCOL_CONNECTION_LOST", "EPIPE"}

ErrorCodes == ConnectionLostCodes \cup {"ETIMEDOUT"}

\* Faulty variant: every error is retried.
RetryOnAnyError(code) == TRUE

\* if (error.code === 'ECONNRESET' || ... 'PROTOCOL_CONNECTION_LOST' || ... 'EPIPE')
ShouldRetry(code) == code \in ConnectionLostCodes

\* query() of the later db module: the first pool.execute rejects with
\* ECONNRESET, PROTOCOL_CONNECTION_LOST or EPIPE and the same statement is
\* executed again; the caller sees nothing of the first failure.
QueryRetry(r) ==
    /\ pc[r] \in {"vcheck", "vinsert"}
    /\ \E code \in ErrorCodes :
         /\ ShouldRetry(code)
         /\ tries' = [tries EXCEPT ![r] = Append(@, code)]
    /\ pc' = [pc EXCEPT ![r] = SecondAttempt(pc[r])]
    /\ UNCHANGED <<dbVars, creating, conn, req, existing, snapshot, listed,
                   assigned, lockedStock, txDec, txRow, err, resp>>

\* query() of the later db module rethrows: the first attempt failed with an
\* error of another kind, or the second attempt failed; catch answers 500.
QueryRethrows(r) ==
    /\ pc[r] \in {"vcheck", "vinsert", "vcheck2", "vinsert2"}
    /\ \E code \in ErrorCodes :
         /\ pc[r] \in {"vcheck", "vinsert"} => ~ShouldRetry(code)
         /\ tries' = [tries EXCEPT ![r] = Append(@, code)]
         /\ err' = [err EXCEPT ![r] = code]
         /\ Finish(r, RegisterCatchResponse(code))
    /\ UNCHANGED <<dbVars, creating, conn, req, assigned>>

\* ------------------------------------------------------------ specifications
InitPrizes ==
    { [p \in PrizeIds |->
         [store_id |-> IF p = "P1" THEN "S1" ELSE s2,
          initial_stock |-> IF p = "P1" THEN n1 ELSE n2,
          available_stock |-> IF p = "P1" THEN n1 ELSE n2]] :
      s2 \in StoreIds, n1 \in 0 .. MaxStock, n2 \in 0 .. MaxStock }

InitRequests(n) ==
    /\ pc = [r \in 1 .. n |-> "idle"]
    /\ conn = [r \in 1 .. n |-> FALSE]
    /\ tries = [r \in 1 .. n |-> <<>>]
    /\ req = [r \in 1 .. n |-> NoReq]
    /\ existing = [r \in 1 .. n |-> -1]
    /\ snapshot = [r \in 1 .. n |-> <<>>]
    /\ listed = [r \in 1 .. n |-> FALSE]
    /\ assigned = [r \in 1 .. n |-> NULL]
    /\ lockedStock = [r \in 1 .. n |-> -1]
    /\ txDec = [r \in 1 .. n |-> 0]
    /\ txRow = [r \in 1 .. n |-> NoRow]
    /\ err = [r \in 1 .. n |-> ""]
    /\ resp = [r \in 1 .. n |-> "NONE"]

InitDb ==
    /\ prizes \in InitPrizes
    /\ registers = {}
    /\ uniqueIdx \in BOOLEAN
    /\ rowLock = [p \in PrizeIds |-> 0]
    /\ stores = [s \in StoreIds |-> NewStore("a", "C1")]
    /\ creating = NoCreate

Init == InitDb /\ InitRequests(NReq)

Receive(r) ==
    ReceiveIn(r, AllocKinds, {p \in Persons : p.dni # NULL}, {"C1"}, StoreIds)

Next ==
    \/ \E r \in Reqs : Receive(r)
    \/ \E r \in Reqs : CheckEligibility(r)
    \/ \E r \in Reqs : ListPrizes(r)
    \/ \E r \in Reqs : Validate(r)
    \/ \E r \in Reqs : Draw(r)
    \/ \E r \in Reqs : BeginTx(r)
    \/ \E r \in Reqs : LockedRead(r)
    \/ \E r \in Reqs : UpdateStock(r)
    \/ \E r \in Reqs : InsertRegister(r)
    \/ \E r \in Reqs : Commit(r)
    \/ \E r \in Reqs : StatementFails(r)
    \/ \E r \in Reqs : Rollback(r)

Spec == Init /\ [][Next]_vars

\* The transaction helper on every path: the general specification with a
\* rollback that may itself fail.
NextTx ==
    \/ \E r \in Reqs : Receive(r)
    \/ \E r \in Reqs : CheckEligibility(r)
    \/ \E r \in Reqs : ListPrizes(r)
    \/ \E r \in Reqs : Validate(r)
    \/ \E r \in Reqs : Draw(r)
    \/ \E r \in Reqs : BeginTx(r)
    \/ \E r \in Reqs : LockedRead(r)
    \/ \E r \in Reqs : UpdateStock(r)
    \/ \E r \in Reqs : InsertRegister(r)
    \/ \E r \in Reqs : Commit(r)
    \/ \E r \in Reqs : StatementFails(r)
    \/ \E r \in Reqs : Rollback(r)
    \/ \E r \in Reqs : RollbackFails(r)

SpecTx == Init /\ [][NextTx]_vars

\* Identity rules: every endpoint that records a national ID or a phone, the
\* /claim variant included, two campaigns, one store with a full first prize.
InitIdent ==
    /\ InitDb
    /\ \A p \in PrizeIds : prizes[p].initial_stock = MaxStock
    /\ InitRequests(NReq)

ReceiveIdent(r) == ReceiveIn(r, IdentKinds, Persons, Campaigns, {"S1"})

NextIdent ==
    \/ \E r \in Reqs : ReceiveIdent(r)
    \/ \E r \in Reqs : CheckEligibility(r)
    \/ \E r \in Reqs : ListPrizes(r)
    \/ \E r \in Reqs : Validate(r)
    \/ \E r \in Reqs : Draw(r)
    \/ \E r \in Reqs : BeginTx(r)
    \/ \E r \in Reqs : LockedRead(r)
    \/ \E r \in Reqs : UpdateStock(r)
    \/ \E r \in Reqs : InsertRegister(r)
    \/ \E r \in Reqs : Commit(r)
    \/ \E r \in Reqs : StatementFails(r)
    \/ \E r \in Reqs : Rollback(r)

SpecIdent == InitIdent /\ [][NextIdent]_vars

\* Stock race: anonymous spins and registrations by distinct national IDs
\* against store S1, no storage failure.
RaceDni == <<"d1", "d2", "d3", "d4">>

ReceiveRace(r) ==
    /\ pc[r] = "idle"
    /\ \E kind \in {"spin", "regspin"} :
         req' = [req EXCEPT ![r] =
                   [kind |-> kind, storeId |-> "S1", campaign |-> "C1",
                    name |-> IF kind = "spin" THEN "anon" ELSE "n1",
                    phone |-> NULL,
                    dni |-> IF kind = "spin" THEN NULL ELSE RaceDni[r],
                    voucher |-> NULL]]
    /\ pc' = [pc EXCEPT ![r] = "query"]
    /\ UNCHANGED <<dbVars, creating, conn, tries, existing, snapshot, listed, assigned, lockedStock,
                   txDec, txRow, err, resp>>

InitRace == InitDb /\ InitRequests(NRace)

NextRace ==
    \/ \E r \in Reqs : ReceiveRace(r)
    \/ \E r \in Reqs : ListPrizes(r)
    \/ \E r \in Reqs : Validate(r)
    \/ \E r \in Reqs : Draw(r)
    \/ \E r \in Reqs : BeginTx(r)
    \/ \E r \in Reqs : LockedRead(r)
    \/ \E r \in Reqs : UpdateStock(r)
    \/ \E r \in Reqs : InsertRegister(r)
    \/ \E r \in Reqs : Commit(r)
    \/ \E r \in Reqs : Rollback(r)

SpecRace == InitRace /\ [][NextRace]_vars

\* Progress: the race between NReq requests, each handler step and each
\* statement eventually served once it can run (the event loop runs every
\* ready continuation; the database grants a free row lock to a waiter).
InitLive == InitDb /\ InitRequests(NReq)

RequestStep(r) ==
    \/ ListPrizes(r)
    \/ Validate(r)
    \/ Draw(r)
    \/ BeginTx(r)
    \/ LockedRead(r)
    \/ UpdateStock(r)
    \/ InsertRegister(r)
    \/ Commit(r)
    \/ Rollback(r)

SpecLive ==
    /\ InitLive
    /\ [][NextRace]_vars
    /\ \A r \in 1 .. NReq : WF_vars(RequestStep(r))

\* Termination: more anonymous spins than the pool has connections, against
\* store S1 with both prizes, storage failures included; every enabled
\* handler step and statement is eventually served.
InitPool ==
    /\ InitRace
    /\ uniqueIdx = FALSE
    /\ \A p \in PrizeIds :
          prizes[p].store_id = "S1" /\ prizes[p].initial_stock = 1

ReceivePool(r) == ReceiveIn(r, {"spin"}, Persons, {"C1"}, {"S1"})

NextPool ==
    \/ \E r \in Reqs : ReceivePool(r)
    \/ \E r \in Reqs : ListPrizes(r)
    \/ \E r \in Reqs : Validate(r)
    \/ \E r \in Reqs : Draw(r)
    \/ \E r \in Reqs : BeginTx(r)
    \/ \E r \in Reqs : LockedRead(r)
    \/ \E r \in Reqs : UpdateStock(r)
    \/ \E r \in Reqs : InsertRegister(r)
    \/ \E r \in Reqs : Commit(r)
    \/ \E r \in Reqs : StatementFails(r)
    \/ \E r \in Reqs : Rollback(r)

SpecPool ==
    /\ InitPool
    /\ [][NextPool]_vars
    /\ \A r \in 1 .. NRace : WF_vars(RequestStep(r))

\* Identity keys: the three /claim handlers and /register-spin in one
\* campaign against the fully stocked store S1.  The identities share the
\* name n1; one has phone and national ID, one the phone only, one the name
\* only; a fourth has another name and nothing else.
KeyKinds == {"claim", "claimAny", "claimPhone", "regspin"}

KeyPersons ==
    { [name |-> "n1", phone |-> "p1", dni |-> "d1"],
      [name |-> "n1", phone |-> "p1", dni |-> NULL],
      [name |-> "n1", phone |-> NULL, dni |-> NULL],
      [name |-> "n2", phone |-> NULL, dni |-> NULL] }

ReceiveKeys(r) == ReceiveIn(r, KeyKinds, KeyPersons, {"C1"}, {"S1"})

NextKeys ==
    \/ \E r \in Reqs : ReceiveKeys(r)
    \/ \E r \in Reqs : CheckEligibility(r)
    \/ \E r \in Reqs : ListPrizes(r)
    \/ \E r \in Reqs : Validate(r)
    \/ \E r \in Reqs : Draw(r)
    \/ \E r \in Reqs : BeginTx(r)
    \/ \E r \in Reqs : LockedRead(r)
    \/ \E r \in Reqs : UpdateStock(r)
    \/ \E r \in Reqs : InsertRegister(r)
    \/ \E r \in Reqs : Commit(r)
    \/ \E r \in Reqs : StatementFails(r)
    \/ \E r \in Reqs : Rollback(r)

SpecKeys == InitIdent /\ [][NextKeys]_vars

\* Administration: anonymous spins against store S1 interleaved with prize
\* creation, stock edits, deactivation and deletion of that store.  S1 starts
\* with one full prize; the second prize is created by the administrator.  No
\* request carries a DNI, so the DNI index plays no part.
AdminStoreIds == {"S1"}

InitAdmin ==
    /\ prizes = [p \in PrizeIds |->
                   IF p = "P1"
                   THEN [store_id |-> "S1", initial_stock |-> MaxStock,
                         available_stock |-> MaxStock]
                   ELSE NoPrize]
    /\ registers = {}
    /\ uniqueIdx = FALSE
    /\ rowLock = [p \in PrizeIds |-> 0]
    /\ stores = [s \in StoreIds |-> NewStore("a", "C1")]
    /\ creating = NoCreate
    /\ InitRequests(NReq)

ReceiveAdmin(r) == ReceiveIn(r, {"spin"}, Persons, {"C1"}, AdminStoreIds)

NextAdmin ==
    \/ \E r \in Reqs : ReceiveAdmin(r)
    \/ \E r \in Reqs : ListPrizes(r)
    \/ \E r \in Reqs : Validate(r)
    \/ \E r \in Reqs : Draw(r)
    \/ \E r \in Reqs : BeginTx(r)
    \/ \E r \in Reqs : LockedRead(r)
    \/ \E r \in Reqs : UpdateStock(r)
    \/ \E r \in Reqs : InsertRegister(r)
    \/ \E r \in Reqs : Commit(r)
    \/ \E r \in Reqs : Rollback(r)
    \/ \E s \in AdminStoreIds : CheckStoreForPrize(s)
    \/ InsertPrize
    \/ \E p \in PrizeIds : UpdatePrize(p)
    \/ \E s \in AdminStoreIds : DeactivateStore(s)
    \/ \E s \in AdminStoreIds : DeleteStore(s)

SpecAdmin == InitAdmin /\ [][NextAdmin]_vars

\* Registrations: /only-register requests racing on two vouchers.
InitVoucher ==
    /\ InitDb
    /\ \A p \in PrizeIds : prizes[p].initial_stock = MaxStock
    /\ InitRequests(NRace)

NextVoucher ==
    \/ \E r \in Reqs : ReceiveOnlyRegister(r)
    \/ \E r \in Reqs : VoucherCheck(r)
    \/ \E r \in Reqs : InsertRegistration(r)
    \/ \E r \in Reqs : RegistrationFails(r)

SpecVoucher == InitVoucher /\ [][NextVoucher]_vars

\* Registrations served with the later db module, whose query() retries.
NextRetry ==
    \/ \E r \in Reqs : ReceiveOnlyRegister(r)
    \/ \E r \in Reqs : VoucherCheck(r)
    \/ \E r \in Reqs : InsertRegistration(r)
    \/ \E r \in Reqs : QueryRetry(r)
    \/ \E r \in Reqs : QueryRethrows(r)

SpecRetry == InitIdent /\ [][NextRetry]_vars

\* The draw alone: one /spin-roulette request that has just listed the
\* prizes of a store with three prizes, of any stock, in any row order.
MaxDrawStock == 3

DrawPrizeIds == {"P1", "P2", "P3"}

DrawOrders ==
    {o \in [1 .. Cardinality(DrawPrizeIds) -> DrawPrizeIds] :
        \A i, j \in DOMAIN o : i # j => o[i] # o[j]}

InitDraw ==
    /\ prizes \in [DrawPrizeIds ->
                      {[store_id |-> "S1", initial_stock |-> MaxDrawStock,
                        available_stock |-> n] : n \in 0 .. MaxDrawStock}]
    /\ registers = {}
    /\ uniqueIdx = FALSE
    /\ rowLock = [p \in DrawPrizeIds |-> 0]
    /\ stores = [s \in StoreIds |-> NewStore("a", "C1")]
    /\ creating = NoCreate
    /\ \E order \in DrawOrders :
          snapshot = [r \in 1 .. 1 |-> ListFrom(order, "S1")]
    /\ snapshot[1] # <<>>
    /\ pc = [r \in 1 .. 1 |-> "draw"]
    /\ conn = [r \in 1 .. 1 |-> FALSE]
    /\ tries = [r \in 1 .. 1 |-> <<>>]
    /\ req = [r \in 1 .. 1 |-> [NoReq EXCEPT !.kind = "spin", !.storeId = "S1"]]
    /\ existing = [r \in 1 .. 1 |-> -1]
    /\ listed = [r \in 1 .. 1 |-> TRUE]
    /\ assigned = [r \in 1 .. 1 |-> NULL]
    /\ lockedStock = [r \in 1 .. 1 |-> -1]
    /\ txDec = [r \in 1 .. 1 |-> 0]
    /\ txRow = [r \in 1 .. 1 |-> NoRow]
    /\ err = [r \in 1 .. 1 |-> ""]
    /\ resp = [r \in 1 .. 1 |-> "NONE"]

NextDraw == \E r \in Reqs : Draw(r)

SpecDraw == InitDraw /\ [][NextDraw]_vars

\* The ledger as a whole: allocations of every endpoint that records an
\* identity and registrations without a prize, side by side in store S1.
ReceiveLedger(r) ==
    ReceiveIn(r, IdentKinds, {p \in Persons : p.dni # NULL}, {"C1"}, {"S1"})

NextLedger ==
    \/ \E r \in Reqs : ReceiveLedger(r)
    \/ \E r \in Reqs : CheckEligibility(r)
    \/ \E r \in Reqs : ListPrizes(r)
    \/ \E r \in Reqs : Validate(r)
    \/ \E r \in Reqs : Draw(r)
    \/ \E r \in Reqs : BeginTx(r)
    \/ \E r \in Reqs : LockedRead(r)
    \/ \E r \in Reqs : UpdateStock(r)
    \/ \E r \in Reqs : InsertRegister(r)
    \/ \E r \in Reqs : Commit(r)
    \/ \E r \in Reqs : Rollback(r)
    \/ \E r \in Reqs : ReceiveOnlyRegister(r)
    \/ \E r \in Reqs : VoucherCheck(r)
    \/ \E r \in Reqs : InsertRegistration(r)
    \/ \E r \in Reqs : RegistrationFails(r)

SpecLedger == InitIdent /\ [][NextLedger]_vars

\* Store edits: PUT /stores/:id requests on a store that exists and on one
\* that may have been deleted.
InitStore ==
    /\ InitIdent
    /\ uniqueIdx = FALSE
    /\ \A p \in PrizeIds : prizes[p].store_id = "S1"

NextStore ==
    \/ \E r \in Reqs : ReceiveUpdateStore(r)
    \/ \E r \in Reqs : UpdateStore(r)
    \/ \E r \in Reqs : UpdateStoreFails(r)
    \/ \E s \in StoreIds : DeleteStore(s)

SpecStore == InitStore /\ [][NextStore]_vars

\* ------------------------------------------------------------------ claims
TxSteps == {"update", "insert", "commit"}

Winners(p) == {r \in Reqs : assigned[r] = p /\ resp[r] = "OK"}

Losers(p) == {r \in Reqs : assigned[r] = p /\ resp[r] = "STOCK_LOST"}

ClaimedRows(p) == {x \in registers : x.prize_id = p /\ x.status = "CLAIMED"}

\* C1: under any interleaving of allocation requests every prize keeps
\* 0 <= available_stock <= initial_stock.
StockWithinBounds ==
    \A p \in PrizeIds :
        /\ 0 <= prizes[p].available_stock
        /\ prizes[p].available_stock <= prizes[p].initial_stock

\* A prize's stock was allocated down to zero and a request that had drawn
\* it before found no stock under the lock.
StockExhaustedWitness ==
    \E p \in PrizeIds, r \in Reqs :
        /\ prizes[p].initial_stock > 0
        /\ prizes[p].available_stock = 0
        /\ assigned[r] = p
        /\ pc[r] = "rollback"
        /\ err[r] = "STOCK_LOST"

\* C2: the units of a prize are won one at a time: at most one transaction
\* is between its locked read and its commit on a prize, and winners plus
\* the transaction holding a decrement never outnumber the prize's units, so
\* a last unit has at most one winner.
LastUnitWonOnce ==
    \A p \in PrizeIds :
        LET holders == {r \in Reqs : assigned[r] = p /\ pc[r] \in TxSteps} IN
        /\ Cardinality(holders) <= 1
        /\ Cardinality(Winners(p)) + Cardinality(holders)
              <= prizes[p].initial_stock

\* Two requests drew the single unit of a prize: one won it, the other lost.
LastUnitRaceWitness ==
    \E p \in PrizeIds :
        /\ prizes[p].initial_stock = 1
        /\ Cardinality(Winners(p)) = 1
        /\ Cardinality(Losers(p)) = 1

\* C3: a transaction that fails after its decrement leaves no trace: the step
\* that ends a request without success changes neither table and leaves the
\* prize's stock at the value its locked read saw, a failed request has no
\* row, and stock and ledger only ever change together.
AllOrNothing ==
    [][ /\ \A r \in Reqs :
            (pc[r] # "done" /\ pc'[r] = "done" /\ resp'[r] # "OK") =>
                /\ prizes' = prizes
                /\ registers' = registers
                /\ lockedStock[r] >= 0 =>
                      prizes'[assigned[r]].available_stock = lockedStock[r]
                /\ \A x \in registers' : x.id # r
        /\ (prizes' # prizes) <=> (registers' # registers)
      ]_vars

\* A request's INSERT failed after its UPDATE; the request ended with an
\* internal error and the prize still has its whole stock.
FailedInsertWitness ==
    \E r \in Reqs :
        /\ pc[r] = "done"
        /\ resp[r] = "INTERNAL"
        /\ err[r] = "ER_DUP_ENTRY"
        /\ prizes[assigned[r]].available_stock = prizes[assigned[r]].initial_stock
        /\ \A x \in registers : x.id # r

\* C4: with allocation requests only, in every committed state
\* initial_stock - available_stock of a prize is the number of CLAIMED rows
\* that reference it.
StockMatchesLedger ==
    \A p \in PrizeIds :
        prizes[p].initial_stock - prizes[p].available_stock
            = Cardinality(ClaimedRows(p))

\* Two requests each took one unit of the same prize and each left one row.
TwoClaimsRecordedWitness ==
    \E p \in PrizeIds :
        /\ prizes[p].initial_stock - prizes[p].available_stock = 2
        /\ Cardinality(ClaimedRows(p)) = 2
        /\ \A r \in Reqs : resp[r] = "OK" /\ assigned[r] = p

ClaimKinds == {"claim", "claimAny"}

ClaimedByDni(c, d) ==
    {x \in registers : x.status = "CLAIMED" /\ x.campaign = c /\ x.dni = d}

\* C5: once a CLAIMED row with a national ID is committed in a campaign, a
\* /claim request with that national ID whose eligibility query runs
\* afterwards is rejected as duplicate, whatever its phone and name, and the
\* rejection changes neither stock nor ledger.
DniBlocksLaterClaim ==
    [][ \A r \in Reqs :
          (req[r].kind \in ClaimKinds /\ req[r].dni # NULL /\ pc[r] = "query") =>
            /\ ( /\ existing[r] = -1
                 /\ ClaimedByDni(req[r].campaign, req[r].dni) # {}
                 /\ (existing'[r] # -1 \/ pc'[r] = "done") )
               => \/ LimitReached(existing'[r])
                  \/ (pc'[r] = "done" /\ resp'[r] = "DUPLICATE")
            /\ (LimitReached(existing[r]) /\ pc'[r] # "query")
               => /\ pc'[r] = "done"
                  /\ resp'[r] = "DUPLICATE"
                  /\ prizes' = prizes
                  /\ registers' = registers
      ]_vars

\* The /claim variant with the three-key check rejected a request whose
\* national ID already holds a CLAIMED row under another phone and name.
SameDniRejectedWitness ==
    \E r \in Reqs, x \in registers :
        /\ req[r].kind = "claimAny"
        /\ resp[r] = "DUPLICATE"
        /\ x.status = "CLAIMED"
        /\ x.campaign = req[r].campaign
        /\ x.dni = req[r].dni
        /\ x.dni # NULL
        /\ x.phone_number # req[r].phone
        /\ x.name # req[r].name

SameKey(q1, q2) ==
    /\ q1.campaign = q2.campaign
    /\ \/ (q1.kind \in ClaimKinds /\ q1.dni # NULL /\ q1.dni = q2.dni)
       \/ (q1.phone # NULL /\ q1.phone = q2.phone)

\* C6: two requests of one checking endpoint with the same national ID or the
\* same phone in one campaign never both commit a CLAIMED row.
NoDoubleClaimUnderRace ==
    \A r1, r2 \in Reqs :
        ( /\ r1 # r2
          /\ req[r1].kind \in CheckKinds
          /\ req[r1].kind = req[r2].kind
          /\ SameKey(req[r1], req[r2]) )
        => ~(resp[r1] = "OK" /\ resp[r2] = "OK")

\* C7: per campaign and national ID at most one CLAIMED row exists, whichever
\* endpoint wrote the rows.
OneClaimPerDni ==
    \A x, y \in registers :
        ( /\ x.status = "CLAIMED" /\ y.status = "CLAIMED"
          /\ x.dni # NULL
          /\ x.dni = y.dni
          /\ x.campaign = y.campaign )
        => x = y

\* The rows the eligibility query of a request's endpoint matches.
MatchingRows(q) ==
    CASE q.kind = "claim"    -> RowsByDni(q)
      [] q.kind = "regfixed" -> RowsByPhone(q)
      [] q.kind = "claimAny" -> RowsByAnyKey(q)
      [] q.kind = "claimPhone" -> RowsByLimitIdentifier(q)
      [] OTHER               -> {}

\* C10: a request is rejected as duplicate only if a ledger row matches its
\* key in its campaign, and a /claim request with no such row that runs alone
\* against a stocked store, no storage step failing, ends with a prize.
RejectedOnlyWithPriorRow ==
    \A r \in Reqs :
        /\ resp[r] = "DUPLICATE" => MatchingRows(req[r]) # {}
        /\ ( /\ req[r].kind \in ClaimKinds
             /\ pc[r] = "done"
             /\ err[r] = ""
             /\ \A o \in Reqs \ {r} : pc[o] = "idle" )
           => resp[r] = "OK"

\* Requests issued so far, and the race being over: all issued, all answered.
Issued == {r \in Reqs : pc[r] # "idle"}

Succeeded == {r \in Reqs : resp[r] = "OK"}

RaceOver == \A r \in Reqs : pc[r] = "done"

StorePrizes == {p \in PrizeIds : prizes[p].store_id = "S1"}

RECURSIVE StoreStock(_)
StoreStock(ps) ==
    IF ps = {} THEN 0
    ELSE LET p == CHOOSE x \in ps : TRUE
         IN (IF p \in StorePrizes THEN prizes[p].initial_stock ELSE 0)
            + StoreStock(ps \ {p})

FailedForStock ==
    \A r \in Reqs \ Succeeded : resp[r] \in {"STOCK_LOST", "NO_STOCK"}

LastUnitScenario ==
    /\ StorePrizes = {"P1"}
    /\ prizes["P1"].initial_stock = 1
    /\ Cardinality(Issued) = 2
    /\ \A r \in Issued : pc[r] = "done"

LastUnitOutcome(loserOutcomes) ==
    /\ prizes["P1"].available_stock = 0
    /\ Cardinality(ClaimedRows("P1")) = 1
    /\ \E w \in Issued :
         /\ resp[w] = "OK"
         /\ assigned[w] = "P1"
         /\ \A o \in Issued \ {w} : resp[o] \in loserOutcomes

CheckReturns(r) ==
    /\ pc[r] = "query"
    /\ existing[r] = -1
    /\ (existing'[r] # -1 \/ pc'[r] = "done")

\* The request is refused by the limit check decided in this step.
CheckRefuses(r) ==
    \/ (pc'[r] = "done" /\ resp'[r] = "DUPLICATE")
    \/ (existing'[r] # -1 /\ LimitReached(existing'[r]))

NameOnly(q) == q.dni = NULL /\ q.phone = NULL

\* Rows of the request's campaign with its name and neither national ID nor
\* phone.
WeakNameRows(q) ==
    {x \in registers :
        /\ x.campaign = q.campaign
        /\ x.name = q.name
        /\ x.dni = NULL
        /\ x.phone_number = NULL}

\* C11: a /claim request that supplies a national ID under which the campaign
\* has no row passes the limit check, whatever rows share its phone or name.
DniRequestIgnoresWeakerKeys ==
    [][ \A r \in Reqs :
          ( /\ req[r].kind \in SequentialKinds
            /\ req[r].dni # NULL
            /\ RowsByDni(req[r]) = {}
            /\ CheckReturns(r) )
          => ~CheckRefuses(r)
      ]_vars

\* C12: a /claim request with neither national ID nor phone is refused by the
\* limit check when the campaign has a row with its name and no national ID
\* and no phone, and is not refused when it has no such row.
NameFallbackWeakRowsOnly ==
    [][ \A r \in Reqs :
          ( /\ req[r].kind \in ClaimKinds \cup SequentialKinds
            /\ NameOnly(req[r])
            /\ CheckReturns(r) )
          => (CheckRefuses(r) <=> WeakNameRows(req[r]) # {})
      ]_vars

PrizeRowKept(p) ==
    /\ prizes[p].store_id \in StoreIds
    /\ prizes'[p].store_id \in StoreIds

\* C14: the available_stock of a prize only ever changes by a decrement of 1
\* applied by the commit of the allocation transaction that holds the row's
\* lock; no other operation writes it.
StockOnlyDecrementsUnderLock ==
    [][ \A p \in PrizeIds :
          ( /\ PrizeRowKept(p)
            /\ prizes'[p].available_stock # prizes[p].available_stock )
          => /\ prizes'[p].available_stock = prizes[p].available_stock - 1
             /\ \E r \in Reqs :
                   /\ rowLock[p] = r
                   /\ pc[r] = "commit"
                   /\ resp'[r] = "OK"
      ]_vars

\* C15: with prize creation and stock edits interleaved with allocation
\* requests, every prize keeps 0 <= available_stock <= initial_stock.
StockWithinBoundsUnderAdmin ==
    \A p \in PrizeIds :
        prizes[p].store_id \in StoreIds =>
            /\ 0 <= prizes[p].available_stock
            /\ prizes[p].available_stock <= prizes[p].initial_stock

\* C16: while a store is inactive no prize of it is decremented and no
\* CLAIMED row that references it is created.
InactiveStoreNeverAllocates ==
    [][ /\ \A x \in registers' \ registers :
             x.status = "CLAIMED" => stores[x.store_id].is_active
        /\ \A p \in PrizeIds :
             ( /\ PrizeRowKept(p)
               /\ prizes'[p].available_stock < prizes[p].available_stock
               /\ \E r \in Reqs : rowLock[p] = r /\ resp'[r] = "OK" )
             => stores[prizes[p].store_id].is_active
      ]_vars

\* C17: the ledger only grows: every step keeps every row as it is, a
\* successful allocation adds exactly one row, its own CLAIMED row, and
\* nothing else adds a row.
LedgerAppendOnly ==
    [][ /\ registers \subseteq registers'
        /\ \A r \in Reqs :
             (resp[r] # "OK" /\ resp'[r] = "OK")
             => /\ Cardinality(registers' \ registers) = 1
                /\ \A x \in registers' \ registers :
                      /\ x.id = r
                      /\ x.status = "CLAIMED"
                      /\ x.prize_id = assigned[r]
        /\ registers' # registers
             => \E r \in Reqs : resp[r] # "OK" /\ resp'[r] = "OK"
      ]_vars

\* A store was deleted after a prize of it had been claimed: the CLAIMED row
\* is still in the ledger.
RowOutlivesStoreWitness ==
    \E x \in registers :
        /\ x.status = "CLAIMED"
        /\ x.store_id \in StoreIds
        /\ ~stores[x.store_id].present

PcRank(l) ==
    CASE l = "idle" -> 0
      [] l = "query" -> 1
      [] l = "draw" -> 2
      [] l = "begin" -> 3
      [] l = "select" -> 4
      [] l = "update" -> 5
      [] l = "insert" -> 6
      [] l = "commit" -> 7
      [] l = "rollback" -> 8
      [] l = "done" -> 9

\* C18: a request lists once, draws once and makes one commit attempt: its
\* handler only moves forward, the listing and the drawn prize never change
\* once taken, and after a failed transaction the request ends; an ended
\* request does nothing more.
OneAttemptPerRequest ==
    [][ \A r \in Reqs :
          /\ PcRank(pc'[r]) >= PcRank(pc[r])
          /\ pc[r] \in {"query", "draw"} /\ pc'[r] = pc[r] /\ listed[r]
               => listed'[r] /\ snapshot'[r] = snapshot[r]
          /\ listed[r] /\ pc'[r] # "done"
               => listed'[r] /\ snapshot'[r] = snapshot[r]
          /\ PcRank(pc[r]) >= PcRank("begin") => assigned'[r] = assigned[r]
          /\ pc[r] = "rollback" => pc'[r] \in {"rollback", "done"}
          /\ pc[r] = "done" => pc'[r] = "done" /\ resp'[r] = resp[r]
      ]_vars

\* A request lost its prize under the lock and ended with the stock conflict
\* although its store still had a unit to list.
NoRetryWitness ==
    \E r \in Reqs :
        /\ pc[r] = "done"
        /\ err[r] = "STOCK_LOST"
        /\ resp[r] = "STOCK_LOST"
        /\ ListAvailablePrizes(req[r].storeId) # <<>>

\* C19: an answered request has the outcome of what happened to it: an
\* internal error only after a storage failure, the stock conflict after
\* STOCK_LOST, the duplicate outcome after a uniqueness violation at insert.
OutcomesNotConfused ==
    \A r \in Reqs :
        pc[r] = "done" =>
            /\ resp[r] = "INTERNAL" => err[r] = "DB_ERROR"
            /\ err[r] = "STOCK_LOST" => resp[r] = "STOCK_LOST"
            /\ err[r] = "ER_DUP_ENTRY" => resp[r] = "DUPLICATE"

RowsOfVoucher(c, v) ==
    {x \in registers : x.campaign = c /\ x.voucher_number = v}

\* C20: whatever the interleaving of /only-register requests, a campaign
\* holds at most one row per voucher, of the requests with one voucher in one
\* campaign at most one is registered, and a request is answered with an
\* internal error only after a storage failure: a voucher found by the check
\* or refused by the insert is answered with the duplicate conflict.
OneRowPerVoucher ==
    /\ \A c \in Campaigns, v \in Vouchers : Cardinality(RowsOfVoucher(c, v)) <= 1
    /\ \A r1, r2 \in Reqs :
          ( /\ r1 # r2
            /\ req[r1].voucher = req[r2].voucher
            /\ req[r1].campaign = req[r2].campaign
            /\ resp[r1] = "REGISTERED" )
          => resp[r2] # "REGISTERED"
    /\ \A r \in Reqs :
          /\ resp[r] = "INTERNAL" => err[r] = "DB_ERROR"
          /\ (pc[r] = "done" /\ err[r] # "DB_ERROR")
                => resp[r] \in {"REGISTERED", "DUPLICATE"}
          /\ err[r] = "ER_DUP_ENTRY" => resp[r] = "DUPLICATE"

\* Two registrations with one voucher in one campaign both passed the
\* voucher check; the insert of the second was refused by the constraint and
\* answered with the duplicate conflict.
VoucherRaceWitness ==
    \E r1, r2 \in Reqs :
        /\ req[r1].voucher = req[r2].voucher
        /\ req[r1].campaign = req[r2].campaign
        /\ resp[r1] = "REGISTERED"
        /\ err[r2] = "ER_DUP_ENTRY"
        /\ resp[r2] = "DUPLICATE"
        /\ Cardinality(RowsOfVoucher(req[r1].campaign, req[r1].voucher)) = 1

\* The locked read of r fails in this step: the statement rejects (lost
\* connection, lock wait timeout) and the transaction helper's catch is next.
LockedReadFails(r) ==
    /\ pc[r] = "select"
    /\ pc'[r] = "rollback"
    /\ err'[r] = "DB_ERROR"

\* C21: a locked read that fails or times out changes neither stock nor
\* ledger and leaves the transaction without writes and without the row lock;
\* the rollback that follows changes neither table, gives the connection
\* back to the pool and answers with an error.
LockedReadFailureRollsBack ==
    [][ \A r \in Reqs :
          /\ LockedReadFails(r)
             => /\ prizes' = prizes
                /\ registers' = registers
                /\ conn[r] /\ txDec'[r] = 0 /\ txRow'[r] = NoRow
                /\ lockedStock'[r] = -1
                /\ \A p \in PrizeIds : rowLock'[p] # r
          /\ ( /\ pc[r] = "rollback" /\ pc'[r] # "rollback"
               /\ err[r] = "DB_ERROR" /\ lockedStock[r] = -1 )
             => /\ pc'[r] = "done"
                /\ resp'[r] = "INTERNAL"
                /\ prizes' = prizes
                /\ registers' = registers
                /\ ~conn'[r]
                /\ \A p \in PrizeIds : rowLock'[p] # r
                /\ \A x \in registers' : x.id # r
      ]_vars

\* A request gave up waiting for a row lock another transaction holds: its
\* transaction is about to be rolled back, its connection still checked out.
LockWaitTimeoutWitness ==
    \E r \in Reqs :
        /\ pc[r] = "rollback"
        /\ err[r] = "DB_ERROR"
        /\ conn[r]
        /\ lockedStock[r] = -1
        /\ rowLock[assigned[r]] \notin {0, r}

\* C22: a request answers success only in the step in which its commit
\* applies its decrement and its row; a request whose transaction failed at
\* any step never answers success, and a request that answered success has
\* its row in the ledger.
SuccessOnlyAfterCommit ==
    /\ [][ \A r \in Reqs :
             (resp[r] # "OK" /\ resp'[r] = "OK")
             => /\ pc[r] = "commit"
                /\ err[r] = ""
                /\ prizes'[assigned[r]].available_stock
                      = prizes[assigned[r]].available_stock - 1
                /\ \E x \in registers' \ registers :
                      x.id = r /\ x.prize_id = assigned[r]
          ]_vars
    /\ [](\A r \in Reqs :
             /\ err[r] # "" => resp[r] # "OK"
             /\ resp[r] = "OK" => \E x \in registers : x.id = r)

\* The commit of a transaction failed after its UPDATE and its INSERT: the
\* request is on its way to the error answer.
CommitFailedWitness ==
    \E r \in Reqs :
        /\ pc[r] = "rollback"
        /\ err[r] = "DB_ERROR"
        /\ txDec[r] = StockDecrement
        /\ txRow[r] # NoRow
        /\ resp[r] = "NONE"

\* C23: a storage operation that fails is executed once: no request is ever
\* executing one of its queries for the second time.
StorageOperationExecutedOnce ==
    \A r \in Reqs : pc[r] \notin {"vcheck2", "vinsert2"}

\* The draw values of measure one: the open unit intervals (k, k + 1), which
\* are the odd half units; an even half unit is the single point k.
UnitIntervals(list) == {h \in DrawValues(list) : h % 2 = 1}

\* The draw values that select the i-th prize of the list.
Selecting(list, i) ==
    {h \in UnitIntervals(list) : weightedRandom(list, h) = list[i]}

\* The request is about to draw or has drawn from its snapshot.
DrawnFrom(r) == pc[r] \in {"draw", "begin"} /\ snapshot[r] # <<>>

\* C24: the draw values in [0, totalWeight) that select a prize of the
\* snapshot have measure exactly that prize's available_stock.
DrawMeasureIsStock ==
    \A r \in Reqs :
        DrawnFrom(r) =>
            \A i \in 1 .. Len(snapshot[r]) :
                Cardinality(Selecting(snapshot[r], i))
                    = snapshot[r][i].available_stock

\* A draw returned the second prize of a snapshot whose first prize has a
\* different stock.
SecondPrizeDrawnWitness ==
    \E r \in Reqs :
        /\ pc[r] = "begin"
        /\ Len(snapshot[r]) >= 2
        /\ snapshot[r][1].available_stock # snapshot[r][2].available_stock
        /\ assigned[r] = snapshot[r][2].id

\* Twice the stock of the first i prizes of the list.
Accumulated(list, i) == 2 * SumStock(SubSeq(list, 1, i))

\* The positions at which the draw value minus the accumulated stock is <= 0.
Reached(list, half) ==
    {i \in 1 .. Len(list) : half - Accumulated(list, i) <= 0}

FirstReached(list, half) ==
    CHOOSE i \in Reached(list, half) : \A j \in Reached(list, half) : i <= j

\* C25: for every draw value the loop reaches a position at which the value
\* minus the accumulated stock is <= 0 (the return after the loop is not
\* reached), the draw returns the prize at the first such position, and
\* the prize returned belongs to the snapshot and has stock.
DrawReturnsFirstReached ==
    \A r \in Reqs :
        /\ DrawnFrom(r) =>
              \A h \in DrawValues(snapshot[r]) :
                  /\ Reached(snapshot[r], h) # {}
                  /\ weightedRandom(snapshot[r], h)
                        = snapshot[r][FirstReached(snapshot[r], h)]
                  /\ weightedRandom(snapshot[r], h).available_stock > 0
        /\ pc[r] = "begin" =>
              \E i \in 1 .. Len(snapshot[r]) :
                  /\ snapshot[r][i].id = assigned[r]
                  /\ snapshot[r][i].available_stock > 0

\* A draw from three prizes returned the last of them.
LastOfThreeDrawnWitness ==
    \E r \in Reqs :
        /\ pc[r] = "begin"
        /\ Len(snapshot[r]) = 3
        /\ assigned[r] = snapshot[r][3].id

\* C26: the step in which a request draws its prize changes no prize's
\* persisted available_stock, no row of the ledger, no row lock and no
\* snapshot list.
DrawHasNoSideEffect ==
    [][ \A r \in Reqs :
          (pc[r] = "draw" /\ pc'[r] # "draw")
          => /\ prizes' = prizes
             /\ registers' = registers
             /\ rowLock' = rowLock
             /\ snapshot' = snapshot
             /\ \E i \in 1 .. Len(snapshot[r]) :
                    assigned'[r] = snapshot[r][i].id
      ]_vars

\* A request has drawn from a snapshot of two prizes while the ledger already
\* holds a row: stock and ledger are as the earlier commit left them.
DrawAfterCommitWitness ==
    \E r \in Reqs :
        /\ pc[r] = "begin"
        /\ Len(snapshot[r]) = 2
        /\ registers # {}

\* The validations of r end in this step with something other than the
\* rejection of an identity that has a row in the ledger.
ValidatedNotDuplicate(r) ==
    /\ pc[r] = "query"
    /\ listed[r]
    /\ pc'[r] # "query"
    /\ ~(resp'[r] = "DUPLICATE" /\ MatchingRows(req[r]) # {})

NoStockOnEmptyListingFor(kinds) ==
    \A r \in Reqs :
        (req[r].kind \in kinds /\ ValidatedNotDuplicate(r))
        => /\ (resp'[r] = "NO_STOCK") <=> (snapshot[r] = <<>>)
           /\ resp'[r] = "NO_STOCK"
              => /\ pc'[r] = "done"
                 /\ assigned[r] = NULL
                 /\ ~conn[r]
                 /\ prizes' = prizes
                 /\ registers' = registers

\* C27: a request whose identity has no row in the ledger ends with the
\* no-stock answer exactly when its listing returned no prize, and then
\* without a draw, without a transaction and without a change of stock or
\* ledger.
NoStockExactlyOnEmptyListing ==
    [][NoStockOnEmptyListingFor(AllocKinds)]_vars

\* C28: the step that rejects a request as duplicate changes neither stock,
\* ledger nor row locks, and the request has drawn no prize, opened no
\* transaction and holds no lock; a request over its limit whose listing is
\* empty is rejected as duplicate, not for lack of stock.
DuplicateNeverTouchesStock ==
    /\ [][ \A r \in Reqs :
             /\ (resp[r] # "DUPLICATE" /\ resp'[r] = "DUPLICATE")
                => /\ prizes' = prizes
                   /\ registers' = registers
                   /\ rowLock' = rowLock
                   /\ assigned[r] = NULL
                   /\ ~conn[r]
                   /\ txDec[r] = 0 /\ txRow[r] = NoRow
                   /\ \A p \in PrizeIds : rowLock[p] # r
             /\ ( /\ pc[r] = "query" /\ pc'[r] # "query"
                  /\ listed[r] /\ snapshot[r] = <<>>
                  /\ LimitReached(existing[r]) )
                => resp'[r] = "DUPLICATE"
          ]_vars
    /\ [](\A r \in Reqs :
             resp[r] = "DUPLICATE" => (assigned[r] = NULL /\ ~conn[r]))

\* A /register-spin-fixed request whose phone has a row in the ledger was
\* rejected as duplicate in a store that never had a unit to give.
DuplicateInEmptyStoreWitness ==
    \E r \in Reqs :
        /\ resp[r] = "DUPLICATE"
        /\ req[r].kind = "regfixed"
        /\ MatchingRows(req[r]) # {}
        /\ \A p \in PrizeIds :
              prizes[p].store_id = req[r].storeId => prizes[p].initial_stock = 0

\* The request is at its draw or inside its transaction.
PastQueries(r) ==
    pc[r] \in {"draw", "begin", "select", "update", "insert", "commit",
               "rollback"}

\* Both reads of the request have returned.
BothReadsReturned(r) ==
    /\ listed[r]
    /\ req[r].kind \in CheckKinds => existing[r] # -1

\* C29: a request that is at its draw or inside its transaction has had both
\* its eligibility query and its prize listing return, and the step in which
\* a request leaves its two reads behind is taken with both returned.
ReadsCompleteBeforeDraw ==
    /\ [](\A r \in Reqs : PastQueries(r) => BothReadsReturned(r))
    /\ [][ \A r \in Reqs :
             (pc[r] = "query" /\ pc'[r] # "query"
                /\ req[r].kind \in ParallelKinds)
             => BothReadsReturned(r)
          ]_vars

\* A /register-spin-fixed request is about to draw: its phone had no row and
\* its listing returned a prize.
ParallelReadsDoneWitness ==
    \E r \in Reqs :
        /\ pc[r] = "draw"
        /\ req[r].kind = "regfixed"
        /\ existing[r] = 0
        /\ snapshot[r] # <<>>

\* The locked read of r waits for the row lock of a prize whose last unit
\* the lock holder is taking.
BlockedOnLastUnit(r) ==
    /\ pc[r] = "select"
    /\ rowLock[assigned[r]] \notin {0, r}
    /\ prizes[assigned[r]].available_stock = 1
    /\ lockedStock[rowLock[assigned[r]]] = 1

ListedIds(list) == {list[i].id : i \in 1 .. Len(list)}

\* The request has chosen its prize and still holds its listing.
HoldsPrize(r) ==
    pc[r] \in {"begin", "select", "update", "insert", "commit", "rollback"}

ClaimedIffPrizeReferenced ==
    /\ \A x \in registers :
          /\ x.status \in {"CLAIMED", "REGISTERED"}
          /\ x.status = "CLAIMED" <=> (x.store_id # NULL /\ x.prize_id # NULL)
          /\ x.status = "REGISTERED" <=> (x.store_id = NULL /\ x.prize_id = NULL)
    /\ \A r \in Reqs : \A x \in registers :
          x.id = r =>
             /\ req[r].kind = "onlyreg" <=> x.status = "REGISTERED"
             /\ req[r].kind # "onlyreg" <=> x.status = "CLAIMED"

\* The ledger holds a row with a prize and a row without one.
BothStatusesWitness ==
    \E x, y \in registers :
        /\ x.status = "CLAIMED" /\ x.prize_id \in PrizeIds
        /\ y.status = "REGISTERED" /\ y.prize_id = NULL

\* C33: a call of the retrying query() executes its statement at most twice:
\* a second execution follows only a first failure with ECONNRESET,
\* PROTOCOL_CONNECTION_LOST or EPIPE and always follows it; a first failure
\* of another kind and a failure of the second execution are rethrown, and
\* the request answers 500 with that error.
RetriesOnceOnLostConnection ==
    \A r \in Reqs :
        LET t == tries[r] IN
        /\ Len(t) <= 2
        /\ pc[r] \in {"idle", "vcheck", "vinsert"} => t = <<>>
        /\ pc[r] \in {"vcheck2", "vinsert2"}
              => (Len(t) = 1 /\ t[1] \in ConnectionLostCodes)
        /\ (pc[r] = "done" /\ Len(t) = 1)
              => /\ t[1] \notin ConnectionLostCodes
                 /\ err[r] = t[1]
                 /\ resp[r] = "INTERNAL"
        /\ (pc[r] = "done" /\ Len(t) = 2)
              => /\ t[1] \in ConnectionLostCodes
                 /\ err[r] = t[2]
                 /\ resp[r] = "INTERNAL"

\* The INSERT of a registration failed twice, first with a lost connection:
\* the request was answered 500 and no third execution followed.
RetryFailedWitness ==
    \E r \in Reqs :
        /\ pc[r] = "done"
        /\ Len(tries[r]) = 2
        /\ resp[r] = "INTERNAL"
        /\ \A x \in registers : x.id # r

\* The prize rows whose lock the request holds.
LocksOf(r) == {p \in PrizeIds : rowLock[p] = r}

\* The request is inside its transaction, past getConnection().
InTransaction(r) ==
    pc[r] \in {"select", "update", "insert", "commit", "rollback"}

\* C34: every request received is eventually answered, and answered once;
\* a request holds a connection only inside its transaction, where it takes
\* nothing more from the pool, and holds at most one row lock, and only
\* with a connection; the pool never lends more connections than it has.
EveryRequestTerminates ==
    /\ \A r \in 1 .. NRace :
          (pc[r] # "idle") ~> (pc[r] = "done" /\ resp[r] # "NONE")
    /\ [][ \A r \in Reqs : resp[r] # "NONE" => resp'[r] = resp[r] ]_vars
    /\ [](\A r \in Reqs :
             /\ conn[r] => InTransaction(r)
             /\ Cardinality(LocksOf(r)) <= 1
             /\ LocksOf(r) # {} => conn[r]
             /\ pc[r] = "done" <=> resp[r] # "NONE")
    /\ [](Cardinality({r \in Reqs : conn[r]}) <= PoolSize)

\* A request waits for a connection while every connection of the pool is
\* held by a transaction, one of them waiting for the other's row lock.
PoolExhaustedWitness ==
    \E r \in Reqs :
        /\ pc[r] = "begin"
        /\ ~PoolHasFree
        /\ \E w \in Reqs :
              pc[w] = "select" /\ rowLock[assigned[w]] \notin {0, w}

\* The transaction of r ends in this step with its writes made durable.
EndsCommitted(r) ==
    /\ pc[r] = "commit"
    /\ resp'[r] = "OK"
    /\ prizes'[assigned[r]].available_stock
          = prizes[assigned[r]].available_stock - txDec[r]
    /\ txRow[r] \in registers' \ registers

\* The transaction of r ends in this step with its writes dropped.
EndsRolledBack(r) ==
    /\ pc[r] = "rollback"
    /\ resp'[r] \in {"STOCK_LOST", "INTERNAL"}
    /\ prizes' = prizes
    /\ registers' = registers

\* C35: a transaction that obtained a connection ends in one step that is
\* either its commit or its rollback, never both and never neither, and in
\* that step, and in no other, gives back its connection and its row lock;
\* a request outside its transaction holds neither.
TransactionEndsOnce ==
    /\ [][ \A r \in Reqs :
             /\ (conn[r] /\ pc'[r] # pc[r])
                => \/ (InTransaction(r) /\ InTransaction(r)')
                   \/ (pc[r] \in {"commit", "rollback"} /\ pc'[r] = "done")
             /\ (conn[r] /\ pc'[r] = "done")
                => /\ ~conn'[r]
                   /\ LocksOf(r) \cap {p \in PrizeIds : rowLock'[p] = r} = {}
                   /\ EndsCommitted(r) # EndsRolledBack(r)
             /\ (conn[r] /\ ~conn'[r]) => pc[r] \in {"commit", "rollback"}
             /\ (~conn[r] /\ conn'[r]) => (pc[r] = "begin" /\ pc'[r] = "select")
          ]_vars
    /\ [](\A r \in Reqs :
             /\ pc[r] \in {"select", "update", "insert", "commit"} => conn[r]
             /\ pc[r] \in {"idle", "query", "draw", "begin", "done"}
                  => (~conn[r] /\ LocksOf(r) = {}))

\* A rollback failed while the transaction held the row lock and its two
\* writes; the request was answered 500 and holds nothing.
RollbackFailedWitness ==
    \E r \in Reqs :
        /\ pc[r] = "done"
        /\ err[r] = "ROLLBACK_ERROR"
        /\ resp[r] = "INTERNAL"
        /\ prizes[assigned[r]].available_stock
              = prizes[assigned[r]].initial_stock
        /\ \A x \in registers : x.id # r

\* Two ledger rows carry the same national ID or the same phone.
SameIdentity(x, y) ==
    \/ (x.dni # NULL /\ x.dni = y.dni)
    \/ (x.phone_number # NULL /\ x.phone_number = y.phone_number)

\* C36: the campaign of every CLAIMED row is the campaign of its store, and
\* no identity holds two CLAIMED rows of one store under different
\* campaign values.
ClaimCampaignIsStoreCampaign ==
    /\ \A x \in registers :
          x.status = "CLAIMED" => x.campaign = stores[x.store_id].campaign
    /\ \A x, y \in registers :
          ( /\ x.status = "CLAIMED" /\ y.status = "CLAIMED"
            /\ x.store_id = y.store_id
            /\ SameIdentity(x, y) )
          => x.campaign = y.campaign

\* The REGISTERED rows of a campaign and a national ID.
RegisteredByDni(c, d) ==
    {x \in registers : x.status = "REGISTERED" /\ x.campaign = c /\ x.dni = d}

\* C37: a /claim request with a national ID whose eligibility query runs
\* while the ledger holds a REGISTERED row of that national ID in its
\* campaign, and no CLAIMED one, is refused by the limit check, and a
\* request refused by the limit check ends as a duplicate without a prize.
RegisteredRowBlocksClaim ==
    [][ \A r \in Reqs :
          (req[r].kind \in ClaimKinds /\ req[r].dni # NULL) =>
            /\ ( /\ CheckReturns(r)
                 /\ RegisteredByDni(req[r].campaign, req[r].dni) # {}
                 /\ ClaimedByDni(req[r].campaign, req[r].dni) = {} )
               => CheckRefuses(r)
            /\ ( /\ pc[r] = "query" /\ pc'[r] # "query"
                 /\ existing[r] # -1 /\ LimitReached(existing[r]) )
               => ( /\ pc'[r] = "done" /\ resp'[r] = "DUPLICATE"
                    /\ prizes' = prizes /\ registers' = registers )
      ]_vars

\* A /claim request was rejected as duplicate although the only row of its
\* national ID in its campaign is a registration without a prize, and its
\* store has stock.
RejectedForRegistrationWitness ==
    \E r \in Reqs :
        /\ req[r].kind \in ClaimKinds
        /\ resp[r] = "DUPLICATE"
        /\ RegisteredByDni(req[r].campaign, req[r].dni) # {}
        /\ ClaimedByDni(req[r].campaign, req[r].dni) = {}
        /\ ListAvailablePrizes(req[r].storeId) # <<>>

\* C38: a store edit that changed the store row reports success, and one
\* that reports an error left the store row as it was.
StoreUpdateReportsChange ==
    [][ \A r \in Reqs :
          (req[r].kind = "putStore" /\ pc[r] = "supdate" /\ pc'[r] = "done")
          => /\ stores' # stores => resp'[r] = "UPDATED"
             /\ resp'[r] \in {"NOT_FOUND", "INTERNAL"} => stores' = stores
      ]_vars

====
